---------------------------- MODULE Spec2Model ----------------------------
(***************************************************************************)
(* HeaderStore (src/src/storage.rs): an in-memory vector of block headers  *)
(* mirrored by an append-only file of length-prefixed records.             *)
(*                                                                         *)
(* The file is modelled byte by byte (a sequence over 0..255).  A header   *)
(* is the six fields of bitcoin::block::Header, each kept as its           *)
(* little-endian bytes, so that consensus encoding is the concatenation    *)
(* the library performs (80 bytes) and decoding is the split of exactly 80 *)
(* bytes.  The digest function is a small mixing function standing for     *)
(* double SHA-256; the compact-target expansion and the 256-bit            *)
(* comparison follow the library.                                          *)
(*                                                                         *)
(* One owner calls open, append, height, _tip and locator_hashes one after *)
(* the other and may drop the store and open the path again.  In Spec the  *)
(* path starts with no file; in SpecFile it may start with a file of any   *)
(* of a set of contents, well-formed or not.  In both, every write_all     *)
(* and every read of an existing file completes.  In SpecFault the file    *)
(* may be one the process has no permission on, and reads and writes may   *)
(* fail.  In SpecTwo a second HeaderStore value is opened on the same      *)
(* path.                                                                   *)
(***************************************************************************)
EXTENDS Integers, Sequences, FiniteSets, TLC

VARIABLES
    exists,     \* whether a file exists at `path`
    disk,       \* the bytes of that file (<<>> when it does not exist)
    opened,     \* whether the owner currently holds a HeaderStore value
    headers,    \* HeaderStore.headers
    network,    \* HeaderStore.network
    call,       \* the last completed call: operation, arguments, state before
    ret,        \* what that call returned
    room,       \* how many more records the environment will have written
                \* (whole, or in part by a write that fails)
    mode,       \* what the file's permissions allow this process: "rw" or "none"
    flaky,      \* whether reads and writes of the file may fail
    fds,        \* how many handles on the file this process holds between calls
    other       \* a second HeaderStore value on the same path

vars == <<exists, disk, opened, headers, network, call, ret, room, mode, flaky, fds, other>>

---------------------------------------------------------------------------
(* Bounds of the model *)

\* the owner stops submitting once this many headers were accepted
MaxHeight == 12
\* longest batch handed to one append call
MaxBatch == 3
\* nonces 0..MaxNonce are tried when the environment builds a candidate
MaxNonce == 3

---------------------------------------------------------------------------
(* Bytes *)

Zeros(n) == [i \in 1..n |-> 0]

\* u32::to_le_bytes
to_le_bytes(n) ==
    << n % 256, (n \div 256) % 256, (n \div 65536) % 256, (n \div 16777216) % 256 >>

\* u32::from_le_bytes(len_buf) as usize.  Every file of the model is shorter
\* than 65536 bytes, so a prefix with a non-zero upper half is reported as
\* 65536: it exceeds what is left of any file, as the real value does.
from_le_bytes(b) ==
    IF b[3] = 0 /\ b[4] = 0 THEN b[1] + 256 * b[2] ELSE 65536

\* the concatenation of a sequence of byte strings
RECURSIVE Concat(_)
Concat(ss) == IF ss = <<>> THEN <<>> ELSE Head(ss) \o Concat(Tail(ss))

---------------------------------------------------------------------------
(* The header type and the collaborators of the bitcoin crate *)

\* consensus::encode::serialize(header): the six fields in order
serialize(h) ==
    h.version \o h.prev_blockhash \o h.merkle_root \o h.time \o h.bits \o h.nonce

\* consensus::encode::deserialize::<BlockHeader>(buf): exactly 80 bytes, or an error
deserialize(buf) ==
    IF Len(buf) = 80
    THEN [ok |-> TRUE,
          header |-> [version        |-> SubSeq(buf, 1, 4),
                      prev_blockhash |-> SubSeq(buf, 5, 36),
                      merkle_root    |-> SubSeq(buf, 37, 68),
                      time           |-> SubSeq(buf, 69, 72),
                      bits           |-> SubSeq(buf, 73, 76),
                      nonce          |-> SubSeq(buf, 77, 80)]]
    ELSE [ok |-> FALSE, header |-> <<>>]

\* one step of the digest: four more bytes are absorbed
Mix(acc, bytes, i) ==
    (acc * 33 + bytes[i] + 3 * bytes[i + 1] + 5 * bytes[i + 2] + 7 * bytes[i + 3] + 1)
        % 65521

RECURSIVE Absorb(_, _, _)
Absorb(acc, bytes, i) ==
    IF i > Len(bytes) THEN acc
    ELSE Absorb(Mix(acc, bytes, i), bytes, i + 4)

\* Header::block_hash(): a 32-byte digest of the 80 encoded bytes
block_hash(h) ==
    LET acc == Absorb(5381, serialize(h), 1)
    IN  [i \in 1..32 |-> IF i = 32 THEN (acc * 167 + 162) % 256
                         ELSE IF i = 31 THEN acc \div 256
                         ELSE (acc + 7 * i) % 256]

\* Header::target(): Target::from_compact(bits), as 32 little-endian bytes
target(h) ==
    LET e   == h.bits[4]
        neg == e >= 3 /\ h.bits[3] >= 128
    IN  [i \in 1..32 |->
            LET k == i - e + 3
            IN  IF ~neg /\ k \in 1..3 THEN h.bits[k] ELSE 0]

\* Target::is_met_by: the digest, read as a little-endian number, is <= target
is_met_by(t, hash) ==
    \/ hash = t
    \/ \E i \in 1..32 : /\ hash[i] < t[i]
                        /\ \A j \in (i + 1)..32 : hash[j] = t[j]

\* Header::validate_pow(required): Ok exactly when the header's own target
\* equals `required` and its hash meets it
validate_pow(h, required) ==
    target(h) = required /\ is_met_by(target(h), block_hash(h))

Networks == {"Bitcoin", "Regtest"}

\* constants::genesis_block(network).header
genesis_block(n) ==
    [version        |-> <<1, 0, 0, 0>>,
     prev_blockhash |-> Zeros(32),
     merkle_root    |-> << 59, 163, 237, 253, 122, 123, 18, 178,
                           122, 199, 44, 62, 103, 118, 143, 97,
                           127, 200, 27, 195, 136, 138, 81, 50,
                           58, 159, 184, 170, 75, 30, 94, 74 >>,
     time           |-> IF n = "Regtest" THEN <<218, 229, 73, 77>> ELSE <<41, 171, 95, 73>>,
     bits           |-> IF n = "Regtest" THEN <<255, 255, 127, 32>> ELSE <<255, 255, 0, 29>>,
     nonce          |-> IF n = "Regtest" THEN <<2, 0, 0, 0>> ELSE <<29, 172, 43, 124>>]

Last(s) == s[Len(s)]

---------------------------------------------------------------------------
(* HeaderStore *)

path == "headers.bin"

Ok == [err |-> "none", msg |-> "", val |-> <<>>]
Err(kind, msg) == [err |-> kind, msg |-> msg, val |-> <<>>]
Value(v) == [err |-> "none", msg |-> "", val |-> v]

\* The loop of open (lines 22-36): read a 4-byte length, then that many
\* bytes, decode, push; stop at the first read_exact of the length that
\* reports UnexpectedEof.  `fault` is the number of the record during whose
\* reading the device reports an error (fault.at = 0: no read fails).
RECURSIVE read_records(_, _, _, _)
read_records(data, pos, acc, fault) ==
    IF fault.at = Len(acc) + 1
    THEN [err |-> "Other", msg |-> "read failed", headers |-> <<>>]
    ELSE IF Len(data) - pos < 4
    THEN [err |-> "none", msg |-> "", headers |-> acc]
    ELSE LET len == from_le_bytes(SubSeq(data, pos + 1, pos + 4))
         IN  IF Len(data) - (pos + 4) < len
             THEN [err |-> "UnexpectedEof", msg |-> "failed to fill whole buffer",
                   headers |-> <<>>]
             ELSE LET d == deserialize(SubSeq(data, pos + 5, pos + 4 + len))
                  IN  IF ~d.ok
                      THEN [err |-> "InvalidData", msg |-> "decode", headers |-> <<>>]
                      ELSE read_records(data, pos + 4 + len, Append(acc, d.header), fault)

\* HeaderStore::open, as a function of the file.  File::open fails when
\* there is no file and when the file's permissions forbid reading it; the
\* `if let Ok` of line 20 skips the loop in both cases.  `held` is the
\* number of handles the call leaves open: the File is local to the block
\* of lines 20-37 and is dropped on every way out of it.
open(fileExists, perm, data, fault) ==
    IF fileExists /\ perm = "rw"
    THEN CHOOSE x \in { [err |-> r.err, msg |-> r.msg, headers |-> r.headers, held |-> 0] :
                          r \in { read_records(data, 0, <<>>, fault) } } : TRUE
    ELSE [err |-> "none", msg |-> "", headers |-> <<>>, held |-> 0]

\* u32::to_be_bytes
to_be_bytes(n) ==
    << (n \div 16777216) % 256, (n \div 65536) % 256, (n \div 256) % 256, n % 256 >>

\* record with the length written big-endian
record_be(h) == to_be_bytes(Len(serialize(h))) \o serialize(h)

\* One length-prefixed record, as append writes it (lines 73-76)
record(h) == to_le_bytes(Len(serialize(h))) \o serialize(h)

RECURSIVE append_loop(_, _, _, _, _)

\* append that checks connectivity for the first candidate of a call only
append_loop_first_only(hs, data, new_headers, i, fault) ==
    IF i > Len(new_headers)
    THEN [err |-> "none", msg |-> "", headers |-> hs, disk |-> data]
    ELSE LET header == new_headers[i]
         IN  IF i = 1 /\ hs # <<>> /\ header.prev_blockhash # block_hash(Last(hs))
             THEN [err |-> "InvalidData", msg |-> "header does not connect",
                   headers |-> hs, disk |-> data]
             ELSE IF ~validate_pow(header, target(header))
             THEN [err |-> "InvalidData", msg |-> "block target correct but not attained",
                   headers |-> hs, disk |-> data]
             ELSE append_loop(Append(hs, header), data \o record(header),
                              new_headers, i + 1, fault)

\* append without the connectivity check
append_loop_no_connect(hs, data, new_headers, i, fault) ==
    IF i > Len(new_headers)
    THEN [err |-> "none", msg |-> "", headers |-> hs, disk |-> data]
    ELSE LET header == new_headers[i]
         IN  IF ~validate_pow(header, target(header))
             THEN [err |-> "InvalidData", msg |-> "block target correct but not attained",
                   headers |-> hs, disk |-> data]
             ELSE append_loop(Append(hs, header), data \o record(header),
                              new_headers, i + 1, fault)

\* append that writes and pushes the header before it validates the proof of work
append_loop_pow_late(hs, data, new_headers, i, fault) ==
    IF i > Len(new_headers)
    THEN [err |-> "none", msg |-> "", headers |-> hs, disk |-> data]
    ELSE LET header == new_headers[i]
         IN  IF hs # <<>> /\ header.prev_blockhash # block_hash(Last(hs))
             THEN [err |-> "InvalidData", msg |-> "header does not connect",
                   headers |-> hs, disk |-> data]
             ELSE IF ~validate_pow(header, target(header))
             THEN [err |-> "InvalidData", msg |-> "block target correct but not attained",
                   headers |-> Append(hs, header), disk |-> data \o record(header)]
             ELSE append_loop(Append(hs, header), data \o record(header),
                              new_headers, i + 1, fault)

\* append without the proof-of-work check
append_loop_no_pow(hs, data, new_headers, i, fault) ==
    IF i > Len(new_headers)
    THEN [err |-> "none", msg |-> "", headers |-> hs, disk |-> data]
    ELSE LET header == new_headers[i]
         IN  IF hs # <<>> /\ header.prev_blockhash # block_hash(Last(hs))
             THEN [err |-> "InvalidData", msg |-> "header does not connect",
                   headers |-> hs, disk |-> data]
             ELSE append_loop(Append(hs, header), data \o record(header),
                              new_headers, i + 1, fault)

\* append that validates the whole batch before it writes any record
append_loop_atomic(hs, data, new_headers, i, fault) ==
    LET ok(k) == /\ \/ k = 1 /\ hs = <<>>
                    \/ new_headers[k].prev_blockhash =
                          block_hash(IF k = 1 THEN Last(hs) ELSE new_headers[k - 1])
                 /\ validate_pow(new_headers[k], target(new_headers[k]))
    IN  IF \A k \in 1..Len(new_headers) : ok(k)
        THEN [err |-> "none", msg |-> "", headers |-> hs \o new_headers,
              disk |-> data \o Concat([k \in 1..Len(new_headers) |-> record(new_headers[k])])]
        ELSE [err |-> "InvalidData", msg |-> "batch rejected", headers |-> hs, disk |-> data]

\* append that checks every candidate against the tip the store had when
\* the call started
append_loop_stale(hs, data, new_headers, i, fault) ==
    IF i > Len(new_headers)
    THEN [err |-> "none", msg |-> "", headers |-> hs, disk |-> data]
    ELSE LET header == new_headers[i]
             start == Len(hs) - (i - 1)
         IN  IF start > 0 /\ header.prev_blockhash # block_hash(hs[start])
             THEN [err |-> "InvalidData", msg |-> "header does not connect",
                   headers |-> hs, disk |-> data]
             ELSE IF ~validate_pow(header, target(header))
             THEN [err |-> "InvalidData", msg |-> "block target correct but not attained",
                   headers |-> hs, disk |-> data]
             ELSE append_loop(Append(hs, header), data \o record(header),
                              new_headers, i + 1, fault)

\* append that checks the proof of work before the connectivity
append_loop_pow_first(hs, data, new_headers, i, fault) ==
    IF i > Len(new_headers)
    THEN [err |-> "none", msg |-> "", headers |-> hs, disk |-> data]
    ELSE LET header == new_headers[i]
         IN  IF ~validate_pow(header, target(header))
             THEN [err |-> "InvalidData", msg |-> "block target correct but not attained",
                   headers |-> hs, disk |-> data]
             ELSE IF hs # <<>> /\ header.prev_blockhash # block_hash(Last(hs))
             THEN [err |-> "InvalidData", msg |-> "header does not connect",
                   headers |-> hs, disk |-> data]
             ELSE append_loop(Append(hs, header), data \o record(header),
                              new_headers, i + 1, fault)

\* append that writes the record of a candidate before it validates it
append_loop_write_first(hs, data, new_headers, i, fault) ==
    IF i > Len(new_headers)
    THEN [err |-> "none", msg |-> "", headers |-> hs, disk |-> data]
    ELSE LET header == new_headers[i]
         IN  IF hs # <<>> /\ header.prev_blockhash # block_hash(Last(hs))
             THEN [err |-> "InvalidData", msg |-> "header does not connect",
                   headers |-> hs, disk |-> data \o record(header)]
             ELSE IF ~validate_pow(header, target(header))
             THEN [err |-> "InvalidData", msg |-> "block target correct but not attained",
                   headers |-> hs, disk |-> data \o record(header)]
             ELSE append_loop(Append(hs, header), data \o record(header),
                              new_headers, i + 1, fault)

\* The loop of append (lines 61-78) from candidate i on.  `fault` names the
\* candidate whose record the device fails to write and how many bytes of
\* the record reached the file before write_all returned the error
\* (at = 0: no write fails).
append_loop(hs, data, new_headers, i, fault) ==
    IF i > Len(new_headers)
    THEN [err |-> "none", msg |-> "", headers |-> hs, disk |-> data]
    ELSE LET header == new_headers[i]
         IN  IF hs # <<>> /\ header.prev_blockhash # block_hash(Last(hs))
             THEN [err |-> "InvalidData", msg |-> "header does not connect",
                   headers |-> hs, disk |-> data]
             ELSE IF ~validate_pow(header, target(header))
             THEN [err |-> "InvalidData", msg |-> "block target correct but not attained",
                   headers |-> hs, disk |-> data]
             ELSE IF fault.at = i
             THEN [err |-> "Other", msg |-> "write failed",
                   headers |-> hs, disk |-> data \o SubSeq(record(header), 1, fault.wrote)]
             ELSE append_loop(Append(hs, header), data \o record(header),
                              new_headers, i + 1, fault)

\* append that opens the file with truncate(true) in place of append(true)
append_truncating(hs, fileExists, perm, data, new_headers, fault) ==
    IF fileExists /\ perm # "rw"
    THEN [err |-> "PermissionDenied", msg |-> "open failed", headers |-> hs,
          exists |-> fileExists, disk |-> data, held |-> 0]
    ELSE CHOOSE x \in { [err |-> r.err, msg |-> r.msg, headers |-> r.headers,
                          exists |-> TRUE, disk |-> r.disk, held |-> 0] :
                          r \in { append_loop(hs, <<>>, new_headers, 1, fault) } } : TRUE

\* append of a store that keeps the File it opened in a field
append_keeps_file(hs, fileExists, perm, data, new_headers, fault) ==
    IF fileExists /\ perm # "rw"
    THEN [err |-> "PermissionDenied", msg |-> "open failed", headers |-> hs,
          exists |-> fileExists, disk |-> data, held |-> 0]
    ELSE CHOOSE x \in { [err |-> r.err, msg |-> r.msg, headers |-> r.headers,
                          exists |-> TRUE, disk |-> r.disk, held |-> 1] :
                          r \in { append_loop(hs, data, new_headers, 1, fault) } } : TRUE

\* HeaderStore::append.  The file is opened (created if absent, append
\* mode) before the loop (lines 57-60); that fails when the file is there
\* and its permissions forbid writing it.  `held` is the number of handles
\* the call leaves open: `file` is a local of append and is dropped on
\* every return (lines 60, 64, 71, 75, 76, 79).
append(hs, fileExists, perm, data, new_headers, fault) ==
    IF fileExists /\ perm # "rw"
    THEN [err |-> "PermissionDenied", msg |-> "open failed", headers |-> hs,
          exists |-> fileExists, disk |-> data, held |-> 0]
    ELSE CHOOSE x \in { [err |-> r.err, msg |-> r.msg, headers |-> r.headers,
                          exists |-> TRUE, disk |-> r.disk, held |-> 0] :
                          r \in { append_loop(hs, data, new_headers, 1, fault) } } : TRUE

\* HeaderStore::height
height(hs) == Len(hs)

\* HeaderStore::_tip: Option<&BlockHeader> as a sequence of length 0 or 1
tip(hs) == IF hs = <<>> THEN <<>> ELSE <<Last(hs)>>

\* locator_hashes without the cap of 10
locator_hashes_uncapped(hs, n) ==
    IF hs = <<>>
    THEN << block_hash(genesis_block(n)) >>
    ELSE [j \in 1..Len(hs) |-> block_hash(hs[Len(hs) + 1 - j])]

\* locator_hashes that always names the regtest genesis block
locator_hashes_regtest(hs, n) ==
    IF hs = <<>>
    THEN << block_hash(genesis_block("Regtest")) >>
    ELSE LET k == IF Len(hs) < 10 THEN Len(hs) ELSE 10
         IN  [j \in 1..k |-> block_hash(hs[Len(hs) + 1 - j])]

\* HeaderStore::locator_hashes
locator_hashes(hs, n) ==
    IF hs = <<>>
    THEN << block_hash(genesis_block(n)) >>
    ELSE LET k == IF Len(hs) < 10 THEN Len(hs) ELSE 10
         IN  [j \in 1..k |-> block_hash(hs[Len(hs) + 1 - j])]

---------------------------------------------------------------------------
(* The owner of the store: the candidates it submits *)

\* A candidate is built as the tests build theirs: the regtest genesis
\* header with prev_blockhash and nonce replaced.
Links == {"tip", "wrong", "stale"}
Pows == {"met", "unmet"}
Recipes == [link : Links, pow : Pows]
Good == [link |-> "tip", pow |-> "met"]

\* the first nonce from n on, up to MaxNonce, whose proof of work comes out
\* as wanted (0 when there is none)
RECURSIVE mine_from(_, _, _)
mine_from(h, want, n) ==
    IF n > MaxNonce THEN 0
    ELSE IF validate_pow([h EXCEPT !.nonce = to_le_bytes(n)], target(h)) = want THEN n
    ELSE mine_from(h, want, n + 1)

mine(h, want) == to_le_bytes(mine_from(h, want, 0))

\* (the singleton sets only make TLC evaluate the header once)
candidate(r, expected, stale) ==
    LET prev == IF r.link = "tip" THEN expected
                ELSE IF r.link = "stale" THEN stale
                ELSE IF expected = Zeros(32) THEN [i \in 1..32 |-> 171]
                ELSE Zeros(32)
    IN  CHOOSE c \in { [h EXCEPT !.nonce = mine(h, r.pow = "met")] :
                         h \in { [genesis_block("Regtest") EXCEPT !.prev_blockhash = prev] } } :
            TRUE

\* the headers of a batch; each candidate names the one before it as its
\* predecessor unless its recipe says otherwise
RECURSIVE build(_, _, _)
build(recipes, expected, stale) ==
    IF recipes = <<>> THEN <<>>
    ELSE CHOOSE batch \in { <<h>> \o build(Tail(recipes), block_hash(h), stale) :
                               h \in { candidate(Head(recipes), expected, stale) } } : TRUE

\* The batches the owner submits: up to MaxBatch candidates that chain onto
\* the tip, at most one of which departs from Good.  (For the first
\* candidate of a batch "stale" and "tip" name the same predecessor.)
Batches ==
    UNION { UNION { { [i \in 1..n |-> IF i = k THEN d ELSE Good] :
                        d \in { x \in Recipes : x.link = "stale" => k > 1 } }
                    : k \in 0..n }
            : n \in 0..MaxBatch }

\* What the device does to the writes of one append call: nothing, or it
\* fails the write of the record of candidate `at` after `wrote` of its 84
\* bytes reached the file: none, half the length, the length, the length
\* and half the header.
NoFault == [at |-> 0, wrote |-> 0]
WriteCuts == {0, 2, 4, 44}
WriteFaults(canFail, n) ==
    {NoFault} \cup IF canFail THEN [at : 1..n, wrote : WriteCuts] ELSE {}

\* What the device does to the reads of one open call: nothing, or it fails
\* a read of the k-th record.
ReadFaults(canFail) ==
    {NoFault} \cup IF canFail THEN [at : {1, 2}, wrote : {0}] ELSE {}

\* a store value nobody holds
NoStore == [opened |-> FALSE, headers |-> <<>>, network |-> ""]

NoCall == [op |-> "none", new_headers |-> <<>>, network |-> "",
           opened |-> FALSE, headers |-> <<>>, exists |-> FALSE, disk |-> <<>>,
           fault |-> NoFault]

\* the record of a call: its arguments, the state it started from and what
\* the device did during it
Called(op, batch, n) ==
    [op |-> op, new_headers |-> batch, network |-> n,
     opened |-> opened, headers |-> headers, exists |-> exists, disk |-> disk,
     fault |-> NoFault]

---------------------------------------------------------------------------
(* Actions: one per operation *)

Init ==
    /\ exists = FALSE
    /\ disk = <<>>
    /\ opened = FALSE
    /\ headers = <<>>
    /\ network = ""
    /\ call = NoCall
    /\ ret = Ok
    /\ room = MaxHeight
    /\ mode = "rw"
    /\ flaky = FALSE
    /\ fds = 0
    /\ other = NoStore

\* HeaderStore::open(path, n)
Open ==
    /\ ~opened
    /\ \E n \in Networks : \E fault \in ReadFaults(flaky) :
       \E r \in {open(exists, mode, disk, fault)} :
          /\ call' = [Called("open", <<>>, n) EXCEPT !.fault = fault]
          /\ IF r.err = "none"
             THEN /\ opened' = TRUE
                  /\ headers' = r.headers
                  /\ network' = n
                  /\ ret' = Ok
             ELSE /\ UNCHANGED <<opened, headers, network>>
                  /\ ret' = Err(r.err, r.msg)
          /\ fds' = fds + r.held
    /\ UNCHANGED <<exists, disk, room, mode, flaky, other>>

\* what the owner expects the next header to name as its predecessor
expected_prev(hs) == IF hs = <<>> THEN Zeros(32) ELSE block_hash(Last(hs))

\* store.append(&new_headers)
StoreAppend ==
    /\ opened
    /\ \E b \in Batches :
          /\ Len(b) <= room
          /\ \E new_headers \in {build(b, expected_prev(headers), expected_prev(headers))} :
             \E fault \in WriteFaults(flaky, Len(b)) :
             \E r \in {append(headers, exists, mode, disk, new_headers, fault)} :
                /\ call' = [Called("append", new_headers, network) EXCEPT !.fault = fault]
                /\ exists' = r.exists
                /\ disk' = r.disk
                /\ headers' = r.headers
                /\ ret' = IF r.err = "none" THEN Ok ELSE Err(r.err, r.msg)
                /\ room' = room - (Len(r.headers) - Len(headers))
                              - (IF r.err = "Other" THEN 1 ELSE 0)
                /\ fds' = fds + r.held
    /\ UNCHANGED <<opened, network, mode, flaky, other>>

\* the store value goes out of scope
Drop ==
    /\ opened
    /\ call' = Called("drop", <<>>, network)
    /\ opened' = FALSE
    /\ headers' = <<>>
    /\ network' = ""
    /\ ret' = Ok
    /\ UNCHANGED <<exists, disk, room, mode, flaky, fds, other>>

\* store.height()
Height ==
    /\ opened
    /\ call' = Called("height", <<>>, network)
    /\ ret' = Value(<<height(headers)>>)
    /\ UNCHANGED <<exists, disk, opened, headers, network, room, mode, flaky, fds, other>>

\* store._tip()
Tip ==
    /\ opened
    /\ call' = Called("_tip", <<>>, network)
    /\ ret' = Value(tip(headers))
    /\ UNCHANGED <<exists, disk, opened, headers, network, room, mode, flaky, fds, other>>

\* store.locator_hashes()
LocatorHashes ==
    /\ opened
    /\ call' = Called("locator_hashes", <<>>, network)
    /\ ret' = Value(locator_hashes(headers, network))
    /\ UNCHANGED <<exists, disk, opened, headers, network, room, mode, flaky, fds, other>>

Next == Open \/ StoreAppend \/ Drop \/ Height \/ Tip \/ LocatorHashes

Spec == Init /\ [][Next]_vars

---------------------------------------------------------------------------
(* A store opened on a file that is already there *)

\* the owner appends at most this many headers to a file it found
MaxFileAppends == 2
\* at most this many records in a file the owner finds
MaxFileRecords == 2

\* Records a found file may hold: the regtest genesis header, a header that
\* chains onto it, a header that names an unknown predecessor and does not
\* meet its target, and a record whose payload is one byte short of a header.
FoundRecords ==
    LET g == genesis_block("Regtest")
        c == candidate(Good, block_hash(g), block_hash(g))
        s == candidate([link |-> "wrong", pow |-> "unmet"], block_hash(g), block_hash(g))
    IN  { record(g), record(c), record(s), to_le_bytes(79) \o Zeros(79) }

\* how many bytes may be missing from the end of a found file: none, part
\* of a payload, a whole payload, or all but 3, 2 or 1 bytes of a record
Cuts == {0, 1, 42, 80, 81, 82, 83}

FoundFiles ==
    { SubSeq(f, 1, Len(f) - t) :
        f \in { Concat(rs) : rs \in UNION { [1..n -> FoundRecords] : n \in 0..MaxFileRecords } },
        t \in Cuts }

InitFile ==
    /\ \/ exists = FALSE /\ disk = <<>>
       \/ exists = TRUE /\ disk \in FoundFiles
    /\ opened = FALSE
    /\ headers = <<>>
    /\ network = ""
    /\ call = NoCall
    /\ ret = Ok
    /\ room = MaxFileAppends
    /\ mode = "rw"
    /\ flaky = FALSE
    /\ fds = 0
    /\ other = NoStore

SpecFile == InitFile /\ [][Next]_vars

---------------------------------------------------------------------------
(* A file the process may have no permission on, on a device whose reads   *)
(* and writes may fail                                                     *)

\* the owner appends at most this many headers on a failing device
MaxFaultAppends == 2

\* the files found on such a device: none, an empty one, whole records, and
\* a record followed by the first byte of a length
FaultFiles ==
    LET g == genesis_block("Regtest")
        c == candidate(Good, block_hash(g), block_hash(g))
    IN  { <<>>, record(g), record(g) \o record(c), record(g) \o <<80>> }

InitFault ==
    /\ \/ exists = FALSE /\ disk = <<>> /\ mode = "rw"
       \/ exists = TRUE /\ disk \in FaultFiles /\ mode \in {"rw", "none"}
    /\ opened = FALSE
    /\ headers = <<>>
    /\ network = ""
    /\ call = NoCall
    /\ ret = Ok
    /\ room = MaxFaultAppends
    /\ flaky = TRUE
    /\ fds = 0
    /\ other = NoStore

SpecFault == InitFault /\ [][Next]_vars

---------------------------------------------------------------------------
(* Two HeaderStore values on one path; nothing serialises their calls *)

\* the two stores together append at most this many headers
MaxSharedAppends == 2

\* the record of a call made on the second store
CalledOther(op, batch, n) ==
    [Called(op, batch, n) EXCEPT !.opened = other.opened, !.headers = other.headers]

\* HeaderStore::open(path, n) for the second value, which is kept from then on
OtherOpen ==
    /\ ~other.opened
    /\ \E n \in Networks : \E fault \in ReadFaults(flaky) :
       \E r \in {open(exists, mode, disk, fault)} :
          /\ call' = [CalledOther("other.open", <<>>, n) EXCEPT !.fault = fault]
          /\ IF r.err = "none"
             THEN /\ other' = [opened |-> TRUE, headers |-> r.headers, network |-> n]
                  /\ ret' = Ok
             ELSE /\ UNCHANGED other
                  /\ ret' = Err(r.err, r.msg)
          /\ fds' = fds + r.held
    /\ UNCHANGED <<exists, disk, opened, headers, network, room, mode, flaky>>

\* append(&new_headers) on the second value
OtherAppend ==
    /\ other.opened
    /\ \E b \in Batches :
          /\ Len(b) <= room
          /\ \E new_headers \in {build(b, expected_prev(other.headers),
                                        expected_prev(other.headers))} :
             \E fault \in WriteFaults(flaky, Len(b)) :
             \E r \in {append(other.headers, exists, mode, disk, new_headers, fault)} :
                /\ call' = [CalledOther("other.append", new_headers, other.network)
                                EXCEPT !.fault = fault]
                /\ exists' = r.exists
                /\ disk' = r.disk
                /\ other' = [other EXCEPT !.headers = r.headers]
                /\ ret' = IF r.err = "none" THEN Ok ELSE Err(r.err, r.msg)
                /\ room' = room - (Len(r.headers) - Len(other.headers))
                              - (IF r.err = "Other" THEN 1 ELSE 0)
                /\ fds' = fds + r.held
    /\ UNCHANGED <<opened, headers, network, mode, flaky>>

NextTwo == Next \/ OtherOpen \/ OtherAppend

InitTwo ==
    /\ exists = FALSE
    /\ disk = <<>>
    /\ opened = FALSE
    /\ headers = <<>>
    /\ network = ""
    /\ call = NoCall
    /\ ret = Ok
    /\ room = MaxSharedAppends
    /\ mode = "rw"
    /\ flaky = FALSE
    /\ fds = 0
    /\ other = NoStore

SpecTwo == InitTwo /\ [][NextTwo]_vars

---------------------------------------------------------------------------
(* The on-disk format of section 6, read strictly: zero or more records,   *)
(* each a 4-byte little-endian length and that many bytes that decode to a *)
(* header, with the end of the file exactly at a record boundary.          *)

RECURSIVE log_from(_, _, _)
log_from(data, pos, acc) ==
    IF pos = Len(data) THEN [ok |-> TRUE, headers |-> acc]
    ELSE IF Len(data) - pos < 4 THEN [ok |-> FALSE, headers |-> <<>>]
    ELSE LET len == from_le_bytes(SubSeq(data, pos + 1, pos + 4))
         IN  IF Len(data) - (pos + 4) < len \/ ~deserialize(SubSeq(data, pos + 5, pos + 4 + len)).ok
             THEN [ok |-> FALSE, headers |-> <<>>]
             ELSE log_from(data, pos + 4 + len,
                           Append(acc, deserialize(SubSeq(data, pos + 5, pos + 4 + len)).header))

\* the log a path holds; a path with no file holds the empty log
log(fileExists, data) ==
    IF fileExists THEN log_from(data, 0, <<>>) ELSE [ok |-> TRUE, headers |-> <<>>]

\* the hash of the tip, as a sequence of length 0 or 1
tip_hash(hs) == IF hs = <<>> THEN <<>> ELSE <<block_hash(Last(hs))>>

\* the proof-of-work condition of section 3
pow_holds(h) == is_met_by(target(h), block_hash(h))

\* candidate k of a batch is acceptable once the candidates before it were
\* accepted onto a store that held `pre`
acceptable(pre, batch, k) ==
    /\ \/ k = 1 /\ pre = <<>>
       \/ batch[k].prev_blockhash = block_hash(IF k = 1 THEN Last(pre) ELSE batch[k - 1])
    /\ pow_holds(batch[k])

Min(S) == CHOOSE x \in S : \A y \in S : x <= y

\* the positions of a batch that fail connectivity or proof of work
offenders(pre, batch) == { k \in 1..Len(batch) : ~acceptable(pre, batch, k) }

\* the last call was an append that left memory and disk as they were
append_left_unchanged ==
    /\ headers = call.headers
    /\ height(headers) = height(call.headers)
    /\ tip(headers) = tip(call.headers)
    /\ log(exists, disk) = log(call.exists, call.disk)

---------------------------------------------------------------------------
(* Claims *)

\* C1: chain-link invariant.  From an absent file, after any sequence of
\* open, append and drop/reopen by one owner, every header but the first
\* names the hash of the header before it.
ChainLinkInvariant ==
    \A i \in 2..Len(headers) : headers[i].prev_blockhash = block_hash(headers[i - 1])

\* a batch was accepted in part onto a non-empty store and then rejected
ChainLinkWitness ==
    /\ call.op = "append" /\ ret.err # "none"
    /\ Len(call.headers) >= 1 /\ Len(headers) >= Len(call.headers) + 2

\* C2: proof-of-work invariant.  From an absent file, every header in memory
\* has a hash that meets the target encoded in that header.
ProofOfWorkInvariant ==
    \A i \in 1..Len(headers) : pow_holds(headers[i])

\* a candidate that links but misses its target was rejected by a store that
\* holds headers
ProofOfWorkWitness ==
    /\ call.op = "append" /\ ret.err # "none" /\ Len(headers) >= 2
    /\ \E k \in 1..Len(call.new_headers) :
          /\ k = Len(headers) - Len(call.headers) + 1
          /\ ~pow_holds(call.new_headers[k])
          /\ call.new_headers[k].prev_blockhash = block_hash(Last(headers))

\* C3: mirror invariant.  After every completed open or append of a
\* single-owner store the file decodes, as length-prefixed records read
\* front to back, to exactly the headers in memory, and height() is the
\* number of records.
MirrorInvariant ==
    (opened /\ call.op \in {"open", "append"}) =>
        /\ log(exists, disk).ok
        /\ log(exists, disk).headers = headers
        /\ height(headers) = Len(log(exists, disk).headers)

\* C4: round trip.  Dropping a store that was opened on an absent path and
\* opening the path again gives the same headers, height and tip hash, and
\* an append after the reopening is validated against the reloaded tip.
RoundTrip ==
    [][ /\ (call.op = "drop" /\ call'.op = "open") =>
              /\ ret'.err = "none"
              /\ opened'
              /\ headers' = call.headers
              /\ height(headers') = height(call.headers)
              /\ tip_hash(headers') = tip_hash(call.headers)
        /\ (call.op = "open" /\ call'.op = "append"
              /\ headers # <<>> /\ call'.new_headers # <<>>) =>
              IF call'.new_headers[1].prev_blockhash = block_hash(Last(headers))
                   /\ pow_holds(call'.new_headers[1])
              THEN Len(headers') > Len(headers) /\ headers'[Len(headers) + 1] = call'.new_headers[1]
              ELSE ret'.err # "none" /\ headers' = headers
      ]_vars

\* a store was reopened on a log of at least two headers
RoundTripWitness ==
    /\ call.op = "open" /\ ret.err = "none" /\ opened
    /\ Len(headers) >= 2 /\ Len(disk) = 84 * Len(headers)

\* C5: connectivity enforcement.  On a non-empty store, append of a single
\* header whose prev_hash is not the hash of the tip returns an error and
\* leaves height, tip, the headers in memory and the decoded log unchanged.
ConnectivityEnforced ==
    (/\ call.op = "append" /\ Len(call.new_headers) = 1
     /\ call.headers # <<>>
     /\ call.new_headers[1].prev_blockhash # block_hash(Last(call.headers)))
    => (ret.err # "none" /\ append_left_unchanged)

\* such a header, with a valid proof of work, was submitted to a store of
\* at least two headers
ConnectivityWitness ==
    /\ call.op = "append" /\ Len(call.new_headers) = 1
    /\ Len(call.headers) >= 2
    /\ call.new_headers[1].prev_blockhash # block_hash(Last(call.headers))
    /\ pow_holds(call.new_headers[1])
    /\ ret.err # "none"

\* C6: proof-of-work enforcement.  Append of a single header whose hash does
\* not meet its own target returns an error and leaves height, tip, the
\* headers in memory and the decoded log unchanged, on an empty store and
\* when the header links to the tip.
ProofOfWorkEnforced ==
    (/\ call.op = "append" /\ Len(call.new_headers) = 1
     /\ ~pow_holds(call.new_headers[1])
     /\ \/ call.headers = <<>>
        \/ call.new_headers[1].prev_blockhash = block_hash(Last(call.headers)))
    => (ret.err # "none" /\ append_left_unchanged)

\* such a header was submitted to an empty store whose file did not exist
ProofOfWorkEnforcedWitness ==
    /\ call.op = "append" /\ Len(call.new_headers) = 1
    /\ ~pow_holds(call.new_headers[1])
    /\ call.headers = <<>> /\ ~call.exists
    /\ ret.err # "none"

\* C7: best-effort prefix.  When the candidate at position k (0-based) is
\* the first of a batch to fail, append returns an error, candidates 0..k-1
\* are in memory and on disk, height grew by exactly k, and no later
\* candidate is in memory or on disk.
BatchPrefix ==
    (call.op = "append" /\ offenders(call.headers, call.new_headers) # {}) =>
        LET k == Min(offenders(call.headers, call.new_headers)) - 1
        IN  /\ ret.err # "none"
            /\ headers = call.headers \o SubSeq(call.new_headers, 1, k)
            /\ log(exists, disk).ok
            /\ log(exists, disk).headers = log(call.exists, call.disk).headers
                                             \o SubSeq(call.new_headers, 1, k)
            /\ height(headers) = height(call.headers) + k
            /\ Len(disk) = Len(call.disk) + 84 * k

\* the third candidate of a batch failed, and a candidate that would link
\* to the second had the store stopped there is in the batch
BatchPrefixWitness ==
    /\ call.op = "append" /\ Len(call.new_headers) = 3
    /\ offenders(call.headers, call.new_headers) = {3}
    /\ Len(headers) = Len(call.headers) + 2

\* C8: locator cap and order.  For a store of height h >= 1, locatorHashes
\* returns min(h, 10) entries, the j-th (0-based) being the hash of
\* headers[h-1-j]: the last headers, tip first, with no gaps.
LocatorCapAndOrder ==
    (call.op = "locator_hashes" /\ Len(headers) >= 1) =>
        /\ Len(ret.val) = (IF Len(headers) < 10 THEN Len(headers) ELSE 10)
        /\ \A j \in 0..(Len(ret.val) - 1) :
              ret.val[j + 1] = block_hash(headers[Len(headers) - j])

\* the locator of a store of more than 10 headers was asked for
LocatorCapWitness ==
    /\ call.op = "locator_hashes" /\ Len(headers) > 10 /\ Len(ret.val) = 10

\* C9: empty-store locator.  A store that holds no headers returns exactly
\* the genesis hash of the network given to open; a non-empty store's
\* locator holds the genesis hash only as the hash of one of its last 10
\* headers.
EmptyStoreLocator ==
    /\ (call.op = "open" /\ opened) => network = call.network
    /\ (call.op = "append") => network = call.network
    /\ (call.op = "locator_hashes" /\ headers = <<>>) =>
          ret.val = << block_hash(genesis_block(network)) >>
    /\ (call.op = "locator_hashes" /\ headers # <<>>) =>
          \A j \in 1..Len(ret.val) :
              ret.val[j] = block_hash(genesis_block(network)) =>
                  \E i \in 1..Len(headers) :
                      i > Len(headers) - 10 /\ block_hash(headers[i]) = ret.val[j]

\* the locator of a store on the main network that is empty after a
\* rejected append
EmptyStoreLocatorWitness ==
    /\ call.op = "locator_hashes" /\ headers = <<>> /\ network = "Bitcoin"
    /\ exists /\ disk = <<>>
    /\ ret.val # << block_hash(genesis_block("Regtest")) >>

\* C10: truncated-log rejection.  open succeeds only when the end of the
\* file falls exactly at a record boundary and every payload decodes.
TruncatedLogRejected ==
    (call.op = "open" /\ ret.err = "none") => log(call.exists, call.disk).ok

\* What open does instead: it succeeds exactly when the file, less at most
\* three bytes at its end, is a well-formed log, and then it loads the
\* records of that log.
OpenIgnoresPartialLength ==
    (call.op = "open" /\ call.exists) =>
        (ret.err = "none") =
            (\E t \in 0..3 : /\ t <= Len(call.disk)
                             /\ log(TRUE, SubSeq(call.disk, 1, Len(call.disk) - t)).ok
                             /\ opened
                             /\ headers = log(TRUE, SubSeq(call.disk, 1, Len(call.disk) - t)).headers)

\* a read of the last open failed: the device was to fail the reading of a
\* record that open came to
read_failed ==
    /\ call.fault.at # 0
    /\ call.fault.at <= Len(open(TRUE, "rw", call.disk, NoFault).headers) + 1

\* C11: open error discrimination.  open returns an empty store without an
\* error when there is no file; when there is a file that cannot be opened
\* (permissions) or a read of it fails, open returns an error and no store.
OpenErrorDiscrimination ==
    /\ (call.op = "open" /\ ~call.exists) => (ret.err = "none" /\ opened /\ headers = <<>>)
    /\ (call.op = "open" /\ call.exists /\ (mode # "rw" \/ read_failed)) =>
          (ret.err # "none" /\ ~opened)

\* s is t or a proper beginning of t
IsPrefix(s, t) == Len(s) <= Len(t) /\ SubSeq(t, 1, Len(s)) = s

\* C12: append-only monotonic growth.  In every step of a store value its
\* height does not decrease and the headers it held stay where they were;
\* in every step the file stays and its bytes stay, more bytes may follow.
AppendOnlyGrowth ==
    [][ /\ (opened /\ opened') =>
              /\ height(headers) <= height(headers')
              /\ IsPrefix(headers, headers')
        /\ exists => exists'
        /\ IsPrefix(disk, disk')
      ]_vars

\* an append to a store that held a header pushed a candidate, and then a
\* write failed after part of the next record had reached the file
AppendOnlyGrowthWitness ==
    /\ call.op = "append" /\ ret.err = "Other"
    /\ Len(call.headers) >= 1 /\ Len(headers) > Len(call.headers)
    /\ Len(disk) > Len(call.disk) + 84 * (Len(headers) - Len(call.headers))

\* C13: empty-store first header.  On an empty store the first candidate of
\* an append is accepted whenever its proof of work holds, whatever
\* predecessor it names.  A later candidate, reached because all before it
\* were accepted, is accepted exactly when it names the hash of the
\* candidate just before it and its proof of work holds.
EmptyStoreFirstHeader ==
    (call.op = "append" /\ call.new_headers # <<>>) =>
        LET new == call.new_headers
            accepted == Len(headers) - Len(call.headers)
        IN  /\ (call.headers = <<>> /\ pow_holds(new[1])) =>
                  (accepted >= 1 /\ headers[1] = new[1])
            /\ \A k \in 2..Len(new) :
                  accepted >= k - 1 =>
                      (accepted >= k) =
                          (/\ new[k].prev_blockhash = block_hash(new[k - 1])
                           /\ pow_holds(new[k]))

\* an empty store accepted a first candidate that names a predecessor
\* nobody knows, and then a second one that names the first
EmptyStoreFirstHeaderWitness ==
    /\ call.op = "append" /\ call.headers = <<>> /\ Len(call.new_headers) >= 2
    /\ call.new_headers[1].prev_blockhash # Zeros(32)
    /\ Len(headers) >= 2
    /\ headers[1] = call.new_headers[1] /\ headers[2] = call.new_headers[2]

\* C14: validation order and first-offender stop.  The first candidate of a
\* batch that fails a check is rejected with the connectivity error when
\* it does not name the hash of the header before it, whether or not its
\* proof of work holds, and with the proof-of-work error otherwise; append
\* returns there, and neither memory nor the file holds anything of the
\* candidates after it.
ValidationOrder ==
    (call.op = "append" /\ offenders(call.headers, call.new_headers) # {}) =>
        LET new == call.new_headers
            k == Min(offenders(call.headers, new))
            before == call.headers \o SubSeq(new, 1, k - 1)
            connects == before = <<>> \/ new[k].prev_blockhash = block_hash(Last(before))
        IN  /\ ret.err = "InvalidData"
            /\ ret.msg = IF connects THEN "block target correct but not attained"
                         ELSE "header does not connect"
            /\ headers = before
            /\ disk = call.disk \o Concat([j \in 1..(k - 1) |-> record(new[j])])

\* the first candidate of a batch of three neither named the tip of a
\* non-empty store nor met its target; the two after it each name the one
\* before and meet their targets
ValidationOrderWitness ==
    /\ call.op = "append" /\ Len(call.new_headers) = 3 /\ call.headers # <<>>
    /\ call.new_headers[1].prev_blockhash # block_hash(Last(call.headers))
    /\ ~pow_holds(call.new_headers[1])
    /\ \A k \in 2..3 : /\ pow_holds(call.new_headers[k])
                        /\ call.new_headers[k].prev_blockhash
                              = block_hash(call.new_headers[k - 1])
    /\ ret.msg = "header does not connect"
    /\ headers = call.headers /\ disk = call.disk

\* C15: open does not weaken the data-model invariants.  The store that a
\* successful open returns holds headers each of which names the hash of
\* the one before it and meets its own target, whatever wrote the file.
OpenKeepsInvariants ==
    (call.op = "open" /\ ret.err = "none" /\ opened) =>
        /\ \A i \in 2..Len(headers) :
              headers[i].prev_blockhash = block_hash(headers[i - 1])
        /\ \A i \in 1..Len(headers) : pow_holds(headers[i])

Diverged ==
    LET l == log(exists, disk).headers
    IN  /\ log(exists, disk).ok
        /\ \/ opened /\ headers # l
           \/ other.opened /\ other.headers # l
        /\ \E i \in 2..Len(l) : l[i].prev_blockhash # block_hash(l[i - 1])
        /\ \E i, j \in 1..Len(l) : i # j /\ l[i].prev_blockhash = l[j].prev_blockhash

\* C17: unsafe under concurrent mutation.  As long as one store value makes
\* all the calls, the file never diverges from memory with a broken chain;
\* once a second value is opened on the path and both append, it can (the
\* witness).
DivergenceNeedsTwoStores ==
    ~other.opened => ~Diverged

\* two store values were opened on the empty path, each appended a first
\* header, and the file now holds both
DivergedWitness ==
    /\ opened /\ other.opened /\ Diverged
    /\ Len(headers) = 1 /\ Len(other.headers) = 1
    /\ Len(log(exists, disk).headers) = 2

\* C18: record-atomic write on I/O failure.  When the write of the record
\* of an accepted candidate fails, append returns the I/O error, memory
\* holds the candidates before it and not that one, and the file holds the
\* whole records of the candidates before it and no byte of the failed
\* record, so that a file that decoded to the headers in memory still does.
RecordAtomicWrite ==
    (call.op = "append" /\ ret.err = "Other") =>
        LET pushed == SubSeq(call.new_headers, 1, call.fault.at - 1)
        IN  /\ headers = call.headers \o pushed
            /\ disk = call.disk \o Concat([j \in 1..Len(pushed) |-> record(pushed[j])])
            /\ (/\ log(call.exists, call.disk).ok
                /\ log(call.exists, call.disk).headers = call.headers) =>
                  (/\ log(exists, disk).ok
                   /\ log(exists, disk).headers = headers)

\* C19: reopen stability for every accepted file.  Whatever file the store
\* was opened on, dropping the store and opening the path again succeeds
\* and gives the headers the store held: the loaded ones followed by the
\* appended ones.
ReopenStable ==
    [][ (call.op = "drop" /\ call'.op = "open") =>
            /\ ret'.err = "none"
            /\ opened'
            /\ headers' = call.headers
      ]_vars

===========================================================================
